---- MODULE Spec2Model ----
(***************************************************************************)
(* Model of src/src/notion_to_md.py: the Tree Builder (page_to_markdown,   *)
(* blocks_to_markdown), the Block Renderer (block_to_markdown,             *)
(* handle_synced_block), the registry (set_custom_transformer) and the     *)
(* Tree Assembler (to_markdown_string).                                    *)
(*                                                                         *)
(* A Python str is a sequence of tokens; the whitespace tokens are " ",    *)
(* "\n" and "\t".  A Python dict is a function whose DOMAIN is its key     *)
(* set.  The formatter and fetch collaborators (utils.md, utils.notion)    *)
(* are not part of the sources and are modelled from their interface.      *)
(***************************************************************************)
EXTENDS Integers, Sequences, FiniteSets, TLC

VARIABLES
    \* ---- converter object (NotionToMarkdown.__init__) ----
    separate_child_page,   \* self.config.separate_child_page
    parse_child_pages,     \* self.config.parse_child_pages
    custom_transformers,   \* self.custom_transformers : type -> transformer | "None"
    \* ---- Tree Builder run (page_to_markdown / blocks_to_markdown) ----
    world,                 \* the fetch collaborator's answer for every block id
    pc,                    \* "setup" | "running" | "done" | "error"
    page_limit,            \* total_pages argument of page_to_markdown
    stack,                 \* activation records of blocks_to_markdown
    result,                \* value returned by page_to_markdown
    err,                   \* the exception that ended the conversion
    fetchLog,              \* every get_block_children call: [by, id, limit]
    renderLog,             \* every block_to_markdown call: what it did
    descended,             \* ids of blocks whose children were recursed into
    skipped,               \* ids of blocks the pruning test skipped
    \* ---- Tree Assembler run (to_markdown_string, outer call) ----
    apc,                   \* "idle" | "loop" | "done"
    md_blocks,             \* argument md_blocks
    idx,                   \* position of the for loop
    md_output,             \* local md_output
    prev_output            \* md_output before the last processed node

vars == <<separate_child_page, parse_child_pages, custom_transformers, world, pc,
          page_limit, stack, result, err, fetchLog, renderLog, descended, skipped,
          apc, md_blocks, idx, md_output, prev_output>>

builderVars == <<world, pc, page_limit, stack, result, err, fetchLog, renderLog,
                 descended, skipped, custom_transformers, parse_child_pages>>

asmVars == <<apc, md_blocks, idx, md_output, prev_output>>

-----------------------------------------------------------------------------
(* Python str and dict primitives                                          *)

NL == "\n"
TAB == "\t"
SP == " "
Whitespace == {SP, NL, TAB}

\* the default page identifier "parent"
ParentId == <<"parent">>

RECURSIVE LStrip(_)
LStrip(s) == IF s # <<>> /\ Head(s) \in Whitespace THEN LStrip(Tail(s)) ELSE s

RECURSIVE RStrip(_)
RStrip(s) ==
    IF s # <<>> /\ s[Len(s)] \in Whitespace THEN RStrip(SubSeq(s, 1, Len(s) - 1)) ELSE s

\* str.strip()
Strip(s) == RStrip(LStrip(s))

\* str.split("\n"): always at least one (possibly empty) line
RECURSIVE SplitAcc(_, _, _)
SplitAcc(s, cur, acc) ==
    IF s = <<>> THEN Append(acc, cur)
    ELSE IF Head(s) = NL THEN SplitAcc(Tail(s), <<>>, Append(acc, cur))
    ELSE SplitAcc(Tail(s), Append(cur, Head(s)), acc)

SplitLines(s) == SplitAcc(s, <<>>, <<>>)

\* "\n".join(lines)
RECURSIVE JoinLines(_)
JoinLines(lines) ==
    IF lines = <<>> THEN <<>>
    ELSE IF Len(lines) = 1 THEN lines[1]
    ELSE lines[1] \o <<NL>> \o JoinLines(Tail(lines))

IsPrefix(s, t) == Len(s) <= Len(t) /\ SubSeq(t, 1, Len(s)) = s

EmptyMap == [k \in {} |-> <<>>]

\* dict.get(k, "")
Get(m, k) == IF k \in DOMAIN m THEN m[k] ELSE <<>>

\* m[k] = v
Put(m, k, v) == [x \in DOMAIN m \cup {k} |-> IF x = k THEN v ELSE m[x]]

\* m[k] = m.get(k, "") followed by m[k] += v
AppendTo(m, k, v) == Put(m, k, Get(m, k) \o v)

\* dict.update(n): the keys of n replace those of m
Update(m, n) == [x \in DOMAIN m \cup DOMAIN n |-> IF x \in DOMAIN n THEN n[x] ELSE m[x]]

RECURSIVE MergeKeys(_, _, _)
\* for key, value in md_str.items(): md_output[key] = md_output.get(key, "") + value
MergeKeys(m, n, keys) ==
    IF keys = {} THEN m
    ELSE LET k == CHOOSE x \in keys : TRUE
         IN MergeKeys(AppendTo(m, k, n[k]), n, keys \ {k})

-----------------------------------------------------------------------------
(* Formatter collaborator (utils.md), modelled from its interface          *)

RECURSIVE Tabs(_)
Tabs(n) == IF n <= 0 THEN <<>> ELSE <<TAB>> \o Tabs(n - 1)

\* md.add_tab_space(text, n): indentation proportional to n
add_tab_space(text, n) == Tabs(n) \o text

\* md.toggle(summary, children): collapsible section
toggle(summary, children) ==
    IF summary = <<>> THEN children
    ELSE <<"<details>", NL, "<summary>">> \o summary \o <<"</summary>", NL>>
         \o children \o <<NL, "</details>", NL, NL>>

heading2(text) == <<"##", SP>> \o text
heading3(text) == <<"###", SP>> \o text
divider == <<"---">>
link(text, url) == <<"[">> \o text \o <<"](">> \o url \o <<")">>
\* the token "fence" stands for the three-backquote code fence
code_block(text, language) == <<"fence">> \o language \o <<NL>> \o text \o <<NL, "fence">>
equation(expr) == <<"$$", NL>> \o expr \o <<NL, "$$">>

-----------------------------------------------------------------------------
(* Tree Assembler: to_markdown_string                                      *)

MdBlock(t, p, c) == [type |-> t, parent |-> p, children |-> c]

\* the quote branch's line reflow
QuoteFormat(text) ==
    LET lines == SplitLines(text)
        out == [i \in 1..Len(lines) |->
                  IF Strip(lines[i]) # <<>> THEN <<">", SP>> \o lines[i] ELSE <<">">>]
    IN Strip(JoinLines(out))

\* "Process parent blocks": the own-fragment phase of one loop iteration
OwnPhase(out, block, page_identifier, nesting_level) ==
    IF block.parent # <<>> /\ block.type \notin {"toggle", "child_page"}
    THEN IF block.type \notin {"to_do", "bulleted_list_item", "numbered_list_item", "quote"}
         THEN AppendTo(out, page_identifier,
                       <<NL>> \o add_tab_space(block.parent, nesting_level) \o <<NL, NL>>)
         ELSE AppendTo(out, page_identifier,
                       add_tab_space(block.parent, nesting_level) \o <<NL>>)
    ELSE out

\* variant of ChildPageMerge that inlines the child page whatever the configuration
ChildPageMerge_AlwaysInline(out, md_str, child_page_title, page_identifier, sep) ==
    LET o1 == AppendTo(out, page_identifier, <<>>)
    IN IF child_page_title \in DOMAIN md_str
       THEN AppendTo(o1, page_identifier,
                     <<NL>> \o child_page_title \o <<NL>> \o md_str[child_page_title])
       ELSE o1

\* child_page branch, given the recursive result md_str
ChildPageMerge(out, md_str, child_page_title, page_identifier, sep) ==
    IF sep THEN Update(out, md_str)
    ELSE LET o1 == AppendTo(out, page_identifier, <<>>)
         IN IF child_page_title \in DOMAIN md_str
            THEN AppendTo(o1, page_identifier,
                          <<NL>> \o child_page_title \o <<NL>> \o md_str[child_page_title])
            ELSE o1

\* quote branch, given the recursive result md_str
QuoteMerge(out, md_str, page_identifier) ==
    LET formatted_content == QuoteFormat(Get(md_str, ParentId))
        o1 == AppendTo(out, page_identifier, <<>>)
        o2 == IF page_identifier # ParentId /\ ParentId \in DOMAIN md_str
              THEN AppendTo(o1, page_identifier, formatted_content)
              ELSE IF page_identifier \in DOMAIN md_str
              THEN AppendTo(o1, page_identifier, formatted_content)
              ELSE o1
    IN AppendTo(o2, page_identifier, <<NL>>)

\* last branch (every other type but callout), given the recursive result md_str
OtherMerge(out, md_str, page_identifier) ==
    LET o1 == AppendTo(out, page_identifier, <<>>)
    IN IF page_identifier # ParentId /\ ParentId \in DOMAIN md_str
       THEN AppendTo(o1, page_identifier, md_str[ParentId])
       ELSE IF page_identifier \in DOMAIN md_str
       THEN AppendTo(o1, page_identifier, md_str[page_identifier])
       ELSE o1

RECURSIVE to_markdown_string(_, _, _, _)
RECURSIVE ProcessBlock(_, _, _, _, _)

\* "Process child blocks": the children phase of one loop iteration
ChildrenPhase(out, block, page_identifier, nesting_level, sep) ==
    IF block.children = <<>> THEN out
    ELSE IF block.type \in {"synced_block", "column_list", "column"}
    THEN LET md_str == to_markdown_string(block.children, page_identifier, 0, sep)
         IN MergeKeys(AppendTo(out, page_identifier, <<>>), md_str, DOMAIN md_str)
    ELSE IF block.type = "child_page"
    THEN ChildPageMerge(out, to_markdown_string(block.children, block.parent, 0, sep),
                        block.parent, page_identifier, sep)
    ELSE IF block.type = "toggle"
    THEN LET toggle_children_md == to_markdown_string(block.children, ParentId, 0, sep)
         IN AppendTo(out, page_identifier,
                     toggle(block.parent, Get(toggle_children_md, ParentId)))
    ELSE IF block.type = "quote"
    THEN QuoteMerge(out,
                    to_markdown_string(block.children, page_identifier, nesting_level, sep),
                    page_identifier)
    ELSE IF block.type # "callout"
    THEN OtherMerge(out,
                    to_markdown_string(block.children, page_identifier, nesting_level + 1, sep),
                    page_identifier)
    ELSE out

\* one iteration of "for block in md_blocks"
ProcessBlock(out, block, page_identifier, nesting_level, sep) ==
    ChildrenPhase(OwnPhase(out, block, page_identifier, nesting_level),
                  block, page_identifier, nesting_level, sep)

RECURSIVE AssembleFrom(_, _, _, _, _)
AssembleFrom(out, blocks, page_identifier, nesting_level, sep) ==
    IF blocks = <<>> THEN out
    ELSE AssembleFrom(ProcessBlock(out, Head(blocks), page_identifier, nesting_level, sep),
                      Tail(blocks), page_identifier, nesting_level, sep)

\* to_markdown_string(md_blocks, page_identifier, nesting_level) under
\* self.config.separate_child_page = sep
to_markdown_string(blocks, page_identifier, nesting_level, sep) ==
    AssembleFrom(EmptyMap, blocks, page_identifier, nesting_level, sep)

-----------------------------------------------------------------------------
(* Blocks, the registry and the fetch collaborator                         *)

VALID_BLOCK_TYPES ==
    {"paragraph", "heading_1", "heading_2", "heading_3",
     "bulleted_list_item", "numbered_list_item", "quote",
     "to_do", "toggle", "code", "image", "video", "file",
     "pdf", "bookmark", "callout", "synced_block", "table",
     "column_list", "column", "link_preview", "link_to_page",
     "equation", "divider", "table_of_contents", "child_page",
     "child_database", "breadcrumb", "template", "unsupported",
     "audio", "embed"}

\* a raw block: synced_from is the source block id of a synced_block ("" when it
\* names none); text is its rich text, title or expression
Block(id, type, hc, from, text) ==
    [id |-> id, type |-> type, has_children |-> hc, synced_from |-> from, text |-> text]

\* depth cap of handle_synced_block
DepthCap == 3

\* bound on the nesting of blocks_to_markdown activations
MaxStack == 6

\* a str value and a dict value of the `parent` field of a node
StrVal(t) == [kind |-> "str", text |-> t, map |-> EmptyMap]
DictVal(m) == [kind |-> "dict", text |-> <<>>, map |-> m]

\* callables a caller can register: what calling each one does
Transformers == {"f", "g", "nonstr", "raise"}

TransformerCall(t) ==
    IF t = "f" THEN [raises |-> FALSE, isStr |-> TRUE, text |-> <<"F">>]
    ELSE IF t = "g" THEN [raises |-> FALSE, isStr |-> TRUE, text |-> <<"G">>]
    ELSE IF t = "nonstr" THEN [raises |-> FALSE, isStr |-> FALSE, text |-> <<>>]
    ELSE [raises |-> TRUE, isStr |-> FALSE, text |-> <<>>]

\* types a transformer is registered for in the model
RegTypes == {"toggle", "bogus"}

\* what to_markdown_string reads of a raw block handed to it by
\* handle_synced_block: block.get("parent"), block.get("children"), block["type"]
RawAsMdBlock(b) == MdBlock(b.type, <<>>, <<>>)

RawAsMdBlocks(blocks) == [k \in 1..Len(blocks) |-> RawAsMdBlock(blocks[k])]

\* the fetch graphs: block id -> the children get_block_children returns
WorldPlain ==
    [k \in {"page", "t1", "q1", "u1", "c1"} |->
        IF k = "page" THEN
            <<Block("p1", "paragraph", FALSE, "", <<"a">>),
              Block("t1", "toggle", TRUE, "", <<"s">>),
              Block("u1", "unsupported", TRUE, "", <<"z">>),
              Block("c1", "child_page", TRUE, "", <<"T">>),
              Block("d1", "divider", FALSE, "", <<>>)>>
        ELSE IF k = "t1" THEN
            <<Block("p2", "paragraph", FALSE, "", <<"b">>),
              Block("u2", "unsupported", FALSE, "", <<"z">>),
              Block("q1", "quote", TRUE, "", <<"q">>)>>
        ELSE IF k = "q1" THEN <<Block("p3", "paragraph", FALSE, "", <<"a">>)>>
        ELSE IF k = "u1" THEN <<Block("p4", "paragraph", FALSE, "", <<"a">>)>>
        ELSE <<Block("p5", "paragraph", FALSE, "", <<"b">>),
               Block("c2", "child_page", FALSE, "", <<"T">>)>>]

\* a synced_block whose source's children contain a synced_block of the same source
WorldSyncCycle ==
    [k \in {"page", "S"} |->
        IF k = "page" THEN <<Block("A", "synced_block", TRUE, "S", <<>>)>>
        ELSE <<Block("B", "synced_block", TRUE, "S", <<>>)>>]

\* A syncs from A
WorldSyncSelf ==
    [k \in {"page", "A"} |-> <<Block("A", "synced_block", TRUE, "A", <<>>)>>]

\* synced blocks without a cycle: with a source, and an original (no source)
WorldSynced ==
    [k \in {"page", "S", "s2"} |->
        IF k = "page" THEN
            <<Block("s1", "synced_block", FALSE, "S", <<>>),
              Block("s2", "synced_block", TRUE, "", <<>>),
              Block("s3", "synced_block", TRUE, "S", <<>>)>>
        ELSE IF k = "S" THEN
            <<Block("p6", "paragraph", FALSE, "", <<"a">>),
              Block("u3", "unsupported", FALSE, "", <<"z">>)>>
        ELSE <<Block("p7", "paragraph", FALSE, "", <<"b">>)>>]

\* a block whose declared type is outside the enumeration, below a toggle
WorldInvalid ==
    [k \in {"page", "t1", "x1"} |->
        IF k = "page" THEN
            <<Block("p1", "paragraph", FALSE, "", <<"a">>),
              Block("t1", "toggle", TRUE, "", <<"s">>)>>
        ELSE IF k = "t1" THEN
            <<Block("x1", "bogus", TRUE, "", <<"b">>),
              Block("p2", "paragraph", FALSE, "", <<"b">>)>>
        ELSE <<>>]

Worlds == {WorldPlain, WorldSyncCycle, WorldSyncSelf, WorldSynced, WorldInvalid}

PageLimits == {"None", "2"}

-----------------------------------------------------------------------------
(* Block Renderer: block_to_markdown and handle_synced_block               *)

\* an outcome of a call: status "ok" or the exception raised, the value returned,
\* how the block was rendered, and the fetches the call made
Outcome(status, value, how, fetches) ==
    [status |-> status, value |-> value, how |-> how, fetches |-> fetches]

SyncFetch(id, ok) ==
    [by |-> "handle_synced_block", for |-> id, id |-> id, limit |-> "None", ok |-> ok]

\* handle_synced_block(block, depth)
handle_synced_block(block, depth) ==
    IF depth > DepthCap THEN {Outcome("ok", StrVal(<<>>), "default", {})}
    ELSE IF block.synced_from = "" THEN {Outcome("ok", StrVal(<<>>), "default", {})}
    ELSE {Outcome("FetchError", StrVal(<<>>), "default", {SyncFetch(block.synced_from, FALSE)}),
          Outcome("ok",
                  DictVal(to_markdown_string(RawAsMdBlocks(world[block.synced_from]),
                                             ParentId, depth + 1, separate_child_page)),
                  "default", {SyncFetch(block.synced_from, TRUE)})}

TextTypes ==
    {"paragraph", "heading_1", "heading_2", "heading_3", "bulleted_list_item",
     "numbered_list_item", "quote", "to_do", "toggle", "callout"}

\* block_to_markdown below the registry check; the payload of a block is its text
DefaultRender(block) ==
    LET t == block.type
        parsed_data == IF t \in TextTypes THEN block.text ELSE <<>>
        ok(v) == {Outcome("ok", StrVal(v), "default", {})}
    IN IF t = "code" THEN ok(code_block(parsed_data, <<>>))
       ELSE IF t = "equation" THEN ok(equation(block.text))
       ELSE IF t = "divider" THEN ok(divider)
       ELSE IF t = "child_page" THEN
            IF parse_child_pages
            THEN ok(IF ~separate_child_page THEN heading2(block.text) ELSE block.text)
            ELSE ok(parsed_data)
       ELSE IF t = "synced_block" THEN handle_synced_block(block, 0)
       ELSE IF t = "child_database" THEN
            IF ~parse_child_pages THEN ok(<<>>) ELSE ok(heading3(block.text))
       ELSE IF t = "table_of_contents" THEN ok(divider)
       ELSE IF t \in {"audio", "embed"} THEN
            ok(link(IF block.text # <<>> THEN block.text ELSE <<t>>, <<"url">>))
       ELSE IF t = "link_preview" THEN ok(link(<<"link_preview">>, <<"url">>))
       ELSE IF t = "breadcrumb" THEN ok(divider)
       ELSE ok(parsed_data)

\* the registry check of block_to_markdown
HasTransformer(block_type) ==
    block_type \in DOMAIN custom_transformers /\ custom_transformers[block_type] # "None"

\* variant of block_to_markdown that consults the registry before the type check
block_to_markdown_OverrideFirst(block) ==
    IF HasTransformer(block.type)
    THEN LET r == TransformerCall(custom_transformers[block.type])
         IN IF r.raises THEN {Outcome("TransformerError", StrVal(<<>>), "override", {})}
            ELSE IF r.isStr THEN {Outcome("ok", StrVal(r.text), "override", {})}
            ELSE {Outcome("ok", StrVal(<<>>), "override", {})}
    ELSE IF block.type \notin VALID_BLOCK_TYPES
    THEN {Outcome("InvalidBlockType", StrVal(<<>>), "invalid", {})}
    ELSE DefaultRender(block)

\* block_to_markdown(block): the set of its possible outcomes
block_to_markdown(block) ==
    IF block.type \notin VALID_BLOCK_TYPES
    THEN {Outcome("InvalidBlockType", StrVal(<<>>), "invalid", {})}
    ELSE IF HasTransformer(block.type)
    THEN LET r == TransformerCall(custom_transformers[block.type])
         IN IF r.raises THEN {Outcome("TransformerError", StrVal(<<>>), "override", {})}
            ELSE IF r.isStr THEN {Outcome("ok", StrVal(r.text), "override", {})}
            ELSE {Outcome("ok", StrVal(<<>>), "override", {})}
    ELSE DefaultRender(block)

-----------------------------------------------------------------------------
(* Tree Builder: page_to_markdown and blocks_to_markdown                   *)

Node(block, value) ==
    [type |-> block.type, block_id |-> block.id, parent |-> value, children |-> <<>>]

\* variant of SkipBlock that ignores parse_child_pages
SkipBlock_UnsupportedOnly(block) == block.type = "unsupported"

\* the pruning test at the head of the loop
SkipBlock(block) ==
    \/ block.type = "unsupported"
    \/ (block.type = "child_page" /\ ~parse_child_pages)

\* the block whose children are fetched
FetchTarget(block) ==
    IF block.type = "synced_block" /\ block.synced_from # ""
    THEN block.synced_from ELSE block.id

\* the test that guards the recursive call
DescendsInto(block) == ~(block.type \in DOMAIN custom_transformers)

\* "md_blocks = md_blocks or []": an empty list that is passed in is replaced by a
\* new list, so the activation appends to the caller's list only if it is non-empty
EnterMdBlocks(passed) ==
    IF passed # <<>> THEN [acc |-> passed, alias |-> TRUE]
    ELSE [acc |-> <<>>, alias |-> FALSE]

\* an activation of blocks_to_markdown(blocks, total_pages, md_blocks)
Frame(blocks, total_pages, passed, via) ==
    [blocks |-> blocks, i |-> 1, total_pages |-> total_pages,
     acc |-> EnterMdBlocks(passed).acc, alias |-> EnterMdBlocks(passed).alias,
     via |-> via]

\* the total_pages argument page_to_markdown hands to blocks_to_markdown
RootTotalPages(total_pages) == "None"

Top == stack[Len(stack)]
SetTop(f) == [stack EXCEPT ![Len(stack)] = f]

asmIdle ==
    /\ apc = "idle"
    /\ md_blocks = <<>>
    /\ idx = 1
    /\ md_output = EmptyMap
    /\ prev_output = EmptyMap

Init ==
    /\ asmIdle
    /\ separate_child_page \in BOOLEAN
    /\ parse_child_pages \in BOOLEAN
    /\ custom_transformers = EmptyMap
    /\ world \in Worlds
    /\ pc = "setup"
    /\ page_limit = "None"
    /\ stack = <<>>
    /\ result = <<>>
    /\ err = ""
    /\ fetchLog = {}
    /\ renderLog = {}
    /\ descended = {}
    /\ skipped = {}

runVars == <<pc, page_limit, stack, result, err, fetchLog, renderLog, descended, skipped>>

\* set_custom_transformer(block_type, transformer)
set_custom_transformer ==
    /\ pc = "setup"
    /\ \E block_type \in RegTypes, transformer \in Transformers \cup {"None"} :
          custom_transformers' = Put(custom_transformers, block_type, transformer)
    /\ UNCHANGED <<runVars, world, separate_child_page, parse_child_pages, asmVars>>

\* an exception leaves every activation
Raise(e) ==
    /\ pc' = "error"
    /\ err' = e
    /\ stack' = <<>>
    /\ UNCHANGED result

\* page_to_markdown(page_id, total_pages), up to the call of blocks_to_markdown
page_to_markdown ==
    /\ pc = "setup"
    /\ \E total_pages \in PageLimits, ok \in BOOLEAN :
          /\ page_limit' = total_pages
          /\ fetchLog' = fetchLog \cup
                {[by |-> "page_to_markdown", for |-> "page", id |-> "page",
                  limit |-> total_pages, ok |-> ok]}
          /\ IF ok
             THEN /\ pc' = "running"
                  /\ stack' = <<Frame(world["page"], RootTotalPages(total_pages), <<>>, "")>>
                  /\ UNCHANGED <<err, result>>
             ELSE Raise("FetchError")
    /\ UNCHANGED <<renderLog, descended, skipped, custom_transformers, world,
                   separate_child_page, parse_child_pages, asmVars>>

\* loop iteration on a pruned block: continue
SkipStep ==
    /\ pc = "running"
    /\ Top.i <= Len(Top.blocks)
    /\ SkipBlock(Top.blocks[Top.i])
    /\ skipped' = skipped \cup {Top.blocks[Top.i].id}
    /\ stack' = SetTop([Top EXCEPT !.i = @ + 1])
    /\ UNCHANGED <<pc, page_limit, result, err, fetchLog, renderLog, descended,
                   custom_transformers, world, separate_child_page, parse_child_pages,
                   asmVars>>

RenderEntry(block, o) ==
    [id |-> block.id, type |-> block.type, how |-> o.how, status |-> o.status,
     value |-> o.value]

\* loop iteration on a block with has_children: fetch, render, append, recurse
ParentStep ==
    /\ pc = "running"
    /\ Top.i <= Len(Top.blocks)
    /\ LET block == Top.blocks[Top.i]
           block_id == FetchTarget(block)
       IN /\ ~SkipBlock(block)
          /\ block.has_children
          /\ \E ok \in BOOLEAN, o \in block_to_markdown(block) :
               LET fe == [by |-> "blocks_to_markdown", for |-> block.id, id |-> block_id,
                          limit |-> Top.total_pages, ok |-> ok]
                   appended == [Top EXCEPT !.acc = Append(@, Node(block, o.value))]
               IN IF ~ok
                  THEN /\ fetchLog' = fetchLog \cup {fe}
                       /\ Raise("FetchError")
                       /\ UNCHANGED <<renderLog, descended>>
                  ELSE /\ fetchLog' = fetchLog \cup {fe} \cup o.fetches
                       /\ renderLog' = renderLog \cup {RenderEntry(block, o)}
                       /\ IF o.status # "ok"
                          THEN Raise(o.status) /\ UNCHANGED descended
                          ELSE IF DescendsInto(block)
                          THEN /\ Len(stack) < MaxStack
                               /\ stack' = Append(SetTop(appended),
                                                  Frame(world[block_id], Top.total_pages,
                                                        Node(block, o.value).children,
                                                        block.type))
                               /\ descended' = descended \cup {block.id}
                               /\ UNCHANGED <<pc, err, result>>
                          ELSE /\ stack' = SetTop([appended EXCEPT !.i = @ + 1])
                               /\ UNCHANGED <<pc, err, result, descended>>
    /\ UNCHANGED <<page_limit, skipped, custom_transformers, world, separate_child_page,
                   parse_child_pages, asmVars>>

\* loop iteration on a block without has_children: render, append
LeafStep ==
    /\ pc = "running"
    /\ Top.i <= Len(Top.blocks)
    /\ LET block == Top.blocks[Top.i]
       IN /\ ~SkipBlock(block)
          /\ ~block.has_children
          /\ \E o \in block_to_markdown(block) :
               /\ fetchLog' = fetchLog \cup o.fetches
               /\ renderLog' = renderLog \cup {RenderEntry(block, o)}
               /\ IF o.status # "ok"
                  THEN Raise(o.status)
                  ELSE /\ stack' = SetTop([Top EXCEPT !.acc = Append(@, Node(block, o.value)),
                                                      !.i = @ + 1])
                       /\ UNCHANGED <<pc, err, result>>
    /\ UNCHANGED <<page_limit, descended, skipped, custom_transformers, world,
                   separate_child_page, parse_child_pages, asmVars>>

\* a recursive blocks_to_markdown returns: its list reaches the caller's node only
\* if it is the caller's list; the caller discards the returned value and continues
RecursiveReturn ==
    /\ pc = "running"
    /\ Len(stack) > 1
    /\ Top.i > Len(Top.blocks)
    /\ LET caller == stack[Len(stack) - 1]
           acc1 == IF Top.alias
                   THEN [caller.acc EXCEPT ![Len(caller.acc)].children = Top.acc]
                   ELSE caller.acc
       IN stack' = Append(SubSeq(stack, 1, Len(stack) - 2),
                          [caller EXCEPT !.acc = acc1, !.i = @ + 1])
    /\ UNCHANGED <<pc, page_limit, result, err, fetchLog, renderLog, descended, skipped,
                   custom_transformers, world, separate_child_page, parse_child_pages,
                   asmVars>>

\* the outermost blocks_to_markdown returns md_blocks, which page_to_markdown returns
PageReturn ==
    /\ pc = "running"
    /\ Len(stack) = 1
    /\ Top.i > Len(Top.blocks)
    /\ result' = Top.acc
    /\ pc' = "done"
    /\ stack' = <<>>
    /\ UNCHANGED <<page_limit, err, fetchLog, renderLog, descended, skipped,
                   custom_transformers, world, separate_child_page, parse_child_pages,
                   asmVars>>

Next ==
    \/ set_custom_transformer
    \/ page_to_markdown
    \/ SkipStep
    \/ ParentStep
    \/ LeafStep
    \/ RecursiveReturn
    \/ PageReturn

Spec == Init /\ [][Next]_vars

-----------------------------------------------------------------------------
(* Inputs of the Tree Assembler                                            *)

\* children per container node
MaxKids == 1

\* nodes of the outer md_blocks list
MaxSiblings == 2

NonEmptySeqs(S, n) == UNION {[1..k -> S] : k \in 1..n}

LeafNodes ==
    {MdBlock("paragraph", <<"a">>, <<>>), MdBlock("bulleted_list_item", <<"b">>, <<>>)}

\* type and own fragment of the container nodes
ContainerHeads ==
    {<<"quote", <<"q">>>>, <<"child_page", <<"T">>>>, <<"child_page", ParentId>>,
     <<"column", <<>>>>, <<"toggle", <<"s">>>>, <<"bulleted_list_item", <<"b">>>>,
     <<"callout", <<"c">>>>}

ContainerNodes ==
    {MdBlock(h[1], h[2], c) : h \in ContainerHeads, c \in NonEmptySeqs(LeafNodes, MaxKids)}

\* a child page whose content is a quote with children
NestedNodes ==
    {MdBlock("child_page", <<"T">>, <<q>>) : q \in {n \in ContainerNodes : n.type = "quote"}}

AsmNodes == LeafNodes \cup ContainerNodes \cup NestedNodes

AsmInputs == {<<>>} \cup NonEmptySeqs(AsmNodes, MaxSiblings)

-----------------------------------------------------------------------------
(* The outer call of to_markdown_string, one loop iteration per step       *)

builderIdle ==
    /\ world = WorldPlain
    /\ pc = "idle"
    /\ page_limit = "None"
    /\ stack = <<>>
    /\ result = <<>>
    /\ err = ""
    /\ fetchLog = {}
    /\ renderLog = {}
    /\ descended = {}
    /\ skipped = {}
    /\ custom_transformers = EmptyMap
    /\ parse_child_pages = TRUE

AsmInit ==
    /\ builderIdle
    /\ separate_child_page \in BOOLEAN
    /\ apc = "idle"
    /\ md_blocks = <<>>
    /\ idx = 1
    /\ md_output = EmptyMap
    /\ prev_output = EmptyMap

\* to_markdown_string(blocks): md_output = {}
ToMarkdownStringCall ==
    /\ apc = "idle"
    /\ \E blocks \in AsmInputs : md_blocks' = blocks
    /\ apc' = "loop"
    /\ idx' = 1
    /\ md_output' = EmptyMap
    /\ prev_output' = EmptyMap
    /\ UNCHANGED <<builderVars, separate_child_page>>

\* one iteration of "for block in md_blocks"
ToMarkdownStringStep ==
    /\ apc = "loop"
    /\ idx <= Len(md_blocks)
    /\ prev_output' = md_output
    /\ md_output' = ProcessBlock(md_output, md_blocks[idx], ParentId, 0, separate_child_page)
    /\ idx' = idx + 1
    /\ UNCHANGED <<builderVars, separate_child_page, apc, md_blocks>>

\* return md_output
ToMarkdownStringReturn ==
    /\ apc = "loop"
    /\ idx > Len(md_blocks)
    /\ apc' = "done"
    /\ UNCHANGED <<builderVars, separate_child_page, md_blocks, idx, md_output, prev_output>>

AsmNext == ToMarkdownStringCall \/ ToMarkdownStringStep \/ ToMarkdownStringReturn

SpecAsm == AsmInit /\ [][AsmNext]_vars

-----------------------------------------------------------------------------
(* Properties of the Tree Builder and the Block Renderer (Spec)             *)

Range(f) == {f[k] : k \in DOMAIN f}

\* every raw block the fetch collaborator can return
AllBlocks == UNION {Range(world[k]) : k \in DOMAIN world}

RECURSIVE Flatten(_)
Flatten(nodes) == UNION {{nodes[k]} \cup Flatten(nodes[k].children) : k \in DOMAIN nodes}

\* every node built so far, returned or still held by an activation
AllBuiltNodes == Flatten(result) \cup UNION {Flatten(stack[k].acc) : k \in DOMAIN stack}

Tokens(t) == Range(t)

ValueTokens(v) == Tokens(v.text) \cup UNION {Tokens(v.map[k]) : k \in DOMAIN v.map}

SpecPruned(b) == b.type = "unsupported" \/ (b.type = "child_page" /\ ~parse_child_pages)

RECURSIVE ShapeOf(_)
ShapeOf(nodes) ==
    [k \in 1..Len(nodes) |->
        [block_id |-> nodes[k].block_id, children |-> ShapeOf(nodes[k].children)]]

RECURSIVE ExpectedShape(_, _)
ExpectedShape(blocks, fuel) ==
    LET kept == SelectSeq(blocks, LAMBDA b : ~SpecPruned(b))
    IN [k \in 1..Len(kept) |->
          [block_id |-> kept[k].id,
           children |->
              IF kept[k].has_children /\ kept[k].type \notin DOMAIN custom_transformers
                 /\ fuel > 0
              THEN ExpectedShape(world[IF kept[k].type = "synced_block"
                                          /\ kept[k].synced_from # ""
                                       THEN kept[k].synced_from ELSE kept[k].id],
                                 fuel - 1)
              ELSE <<>>]]

\* C1: when the conversion returns, every node of a block with has_children, of a
\* type that is not pruned and has no registry entry, holds as children the nodes
\* built recursively from the fetched children, in sibling order; the other nodes
\* have no children.
C1_ChildrenBuilt ==
    pc = "done" => ShapeOf(result) = ExpectedShape(world["page"], MaxStack)

\* number of activations entered through a synced_block
SyncedDepth == Cardinality({k \in DOMAIN stack : stack[k].via = "synced_block"})

\* C2: resolution of synced blocks stops once its depth exceeds the cap of 3: at no
\* time are more than DepthCap + 1 resolutions of a synced_block nested, so a
\* synced_block cycle costs a bounded number of fetches and recursive calls.
C2_SyncedDepthBounded == SyncedDepth <= DepthCap + 1

\* C4: whenever the registry holds an entry for the (valid) type of a rendered block,
\* the block is rendered by the override (its string result, or the empty string) and
\* its children are not descended into; whenever it holds none, the block is rendered
\* by default and a block with has_children is descended into.
C4_OverrideDecides ==
    \A e \in renderLog :
        e.type \in VALID_BLOCK_TYPES =>
            IF e.type \in DOMAIN custom_transformers
            THEN /\ e.how = "override"
                 /\ e.id \notin descended
                 /\ e.status = "ok" =>
                      e.value = StrVal(TransformerCall(custom_transformers[e.type]).text)
            ELSE /\ e.how = "default"
                 /\ \A b \in AllBlocks :
                      (b.id = e.id /\ b.has_children /\ e.status = "ok") => e.id \in descended

C8_FatalErrorsAbort ==
    /\ \A e \in renderLog :
          /\ (e.status = "InvalidBlockType") <=> (e.type \notin VALID_BLOCK_TYPES)
          /\ e.type \notin VALID_BLOCK_TYPES => e.how = "invalid"
          /\ e.status # "ok" => pc = "error"
    /\ \A f \in fetchLog : ~f.ok => pc = "error"
    /\ pc = "error" => result = <<>> /\ err # "" /\ stack = <<>>
    /\ pc = "done" => err = ""

\* the invalid-type error ended a conversion although an override is registered for
\* that type
C8_Witness ==
    /\ pc = "error"
    /\ err = "InvalidBlockType"
    /\ "bogus" \in DOMAIN custom_transformers
    /\ custom_transformers["bogus"] \in Transformers
    /\ \E e \in renderLog : e.type = "bogus"

\* C9: every fetch of the Tree Builder (the root fetch and the fetch for every block
\* with has_children) is issued with the page limit given to page_to_markdown.
C9_PageLimitPropagated ==
    \A f \in fetchLog :
        f.by \in {"page_to_markdown", "blocks_to_markdown"} => f.limit = page_limit

\* C10: block_to_markdown returns a string for every block of a valid type, so the
\* `parent` field of every built node is a string.
C10_OwnFragmentIsString ==
    /\ \A e \in renderLog :
          (e.type \in VALID_BLOCK_TYPES /\ e.status = "ok") => e.value.kind = "str"
    /\ \A n \in AllBuiltNodes : n.parent.kind = "str"

-----------------------------------------------------------------------------
(* Properties of the Tree Assembler (SpecAsm)                               *)

\* C3: no loop iteration removes an identifier from the map or changes the text
\* already accumulated under it: the previous text is a prefix of the new one.
C3_AppendOnly ==
    \A k \in DOMAIN prev_output :
        k \in DOMAIN md_output /\ IsPrefix(prev_output[k], md_output[k])

RECURSIVE HasType(_, _)
HasType(nodes, t) ==
    \E k \in DOMAIN nodes : nodes[k].type = t \/ HasType(nodes[k].children, t)

\* the returned map of a tree: root nodes without child pages and with non-empty
\* content, then one child_page node with non-empty content and no nested child page
C5_Case ==
    /\ apc = "done"
    /\ Len(md_blocks) >= 2
    /\ md_blocks[Len(md_blocks)].type = "child_page"
    /\ ~HasType(SubSeq(md_blocks, 1, Len(md_blocks) - 1), "child_page")
    /\ ~HasType(md_blocks[Len(md_blocks)].children, "child_page")
    /\ Get(to_markdown_string(SubSeq(md_blocks, 1, Len(md_blocks) - 1), ParentId, 0,
                              separate_child_page), ParentId) # <<>>
    /\ Get(to_markdown_string(md_blocks[Len(md_blocks)].children,
                              md_blocks[Len(md_blocks)].parent, 0, separate_child_page),
           md_blocks[Len(md_blocks)].parent) # <<>>

C5_Outcome ==
    LET cp == md_blocks[Len(md_blocks)]
        T == cp.parent
        rootContent == to_markdown_string(SubSeq(md_blocks, 1, Len(md_blocks) - 1),
                                          ParentId, 0, separate_child_page)[ParentId]
        childContent == to_markdown_string(cp.children, T, 0, separate_child_page)[T]
    IN IF separate_child_page
       THEN /\ Cardinality(DOMAIN md_output) = 2
            /\ DOMAIN md_output = {ParentId, T}
            /\ md_output[ParentId] = rootContent
            /\ md_output[T] = childContent
       ELSE /\ DOMAIN md_output = {ParentId}
            /\ md_output[ParentId] = rootContent \o <<NL>> \o T \o <<NL>> \o childContent

\* C5 as stated: for a child page of any title T, splitting gives exactly the two
\* entries "parent" (root content only) and T (child content only), inlining gives
\* the one entry "parent": root content, then the title, then the child content.
C5_SplitVsInline == C5_Case => C5_Outcome

\* C5 amended: the same, for a child page whose title T is not the root identifier
\* "parent".
C5_SplitVsInlineDistinctTitle ==
    (C5_Case /\ md_blocks[Len(md_blocks)].parent # ParentId) => C5_Outcome

\* a tree of root content and a child page titled T was assembled into two documents
C5_Witness ==
    /\ C5_Case
    /\ separate_child_page
    /\ md_blocks[Len(md_blocks)].parent = <<"T">>
    /\ DOMAIN md_output = {ParentId, <<"T">>}

\* the reflow the specification asks of a quote's children text
SpecReflow(text) ==
    LET lines == SplitLines(text)
    IN Strip(JoinLines([k \in 1..Len(lines) |->
                          IF \A j \in DOMAIN lines[k] : lines[k][j] \in Whitespace
                          THEN <<">">> ELSE <<">", SP>> \o lines[k]]))

\* what a quote node with children is to add to the document page_identifier
SpecQuoteText(q, page_identifier, nesting_level) ==
    (IF q.parent # <<>> THEN add_tab_space(q.parent, nesting_level) \o <<NL>> ELSE <<>>)
    \o SpecReflow(Get(to_markdown_string(q.children, page_identifier, nesting_level,
                                         separate_child_page), page_identifier))
    \o <<NL>>

IsQuoteWithChildren(n) == n.type = "quote" /\ n.children # <<>>

\* C6: a quote node with children adds to the current document, be it the root
\* "parent" or a child page's, its children's text of that document reflowed line by
\* line, then one newline.
C6_QuoteReflow ==
    (apc = "loop" /\ idx > 1) =>
        LET n == md_blocks[idx - 1]
        IN /\ IsQuoteWithChildren(n) =>
                md_output[ParentId] = Get(prev_output, ParentId) \o SpecQuoteText(n, ParentId, 0)
           /\ (/\ n.type = "child_page" /\ n.parent # ParentId
               /\ Len(n.children) = 1 /\ IsQuoteWithChildren(n.children[1])) =>
                IF separate_child_page
                THEN md_output[n.parent] = SpecQuoteText(n.children[1], n.parent, 0)
                ELSE md_output[ParentId] =
                        Get(prev_output, ParentId) \o <<NL>> \o n.parent \o <<NL>>
                        \o SpecQuoteText(n.children[1], n.parent, 0)

====
